---- MODULE Spec2Model ----
(***************************************************************************)
(* Model of teleprompter.py: the pacing / word-highlighting scheduler of   *)
(* class Teleprompter, the command line validation of parse_args, and the  *)
(* Tk "after" timer table the scheduler runs on.                           *)
(*                                                                         *)
(* The handlers modelled are those that read or write the playback state:   *)
(* toggle_pause, next_manual, prev_manual, restart, the Escape binding and  *)
(* the timer callbacks start_show, auto_next and tick.  The font, border    *)
(* and drag handlers touch the widgets' appearance only.                    *)
(*                                                                         *)
(* Texts are sequences of one-character strings.  Times are integer        *)
(* milliseconds; the float seconds of the options (--spw, --min-sec,       *)
(* --max-sec) are carried as their value in milliseconds, so that          *)
(* int(dur * 1000) is the value itself.                                    *)
(***************************************************************************)
EXTENDS Integers, Sequences, FiniteSets, TLC

\* Python's None; a value v that may be None is carried as <<v>>.
None == <<>>

Some(v) == <<v>>

ValueOf(opt) == opt[1]

\* ------------------------------------------------------------------ text

Whitespace == {" ", "\t", "\n"}

IsSpace(c) == c \in Whitespace

Max(a, b) == IF a >= b THEN a ELSE b

Min(a, b) == IF a <= b THEN a ELSE b

\* str.lower() on one character (the letters the texts of the model use).
LowerChar(c) ==
    CASE c = "A" -> "a"
      [] c = "B" -> "b"
      [] c = "E" -> "e"
      [] c = "G" -> "g"
      [] c = "K" -> "k"
      [] c = "R" -> "r"
      [] OTHER -> c

Lower(text) == [i \in 1..Len(text) |-> LowerChar(text[i])]

\* str.strip(): drop leading and trailing whitespace.
Strip(text) ==
    LET keep == {i \in 1..Len(text) : ~IsSpace(text[i])}
    IN  IF keep = {} THEN <<>>
        ELSE LET lo == CHOOSE i \in keep : \A j \in keep : i <= j
                 hi == CHOOSE i \in keep : \A j \in keep : i >= j
             IN  SubSeq(text, lo, hi)

StartsWith(text, prefix) ==
    /\ Len(text) >= Len(prefix)
    /\ SubSeq(text, 1, Len(prefix)) = prefix

\* The 1-based positions at which a maximal run of non-whitespace starts.
WordStarts(text) ==
    {i \in 1..Len(text) : ~IsSpace(text[i]) /\ (i = 1 \/ IsSpace(text[i - 1]))}

\* The 1-based position of the last character of the run starting at i.
WordEnd(text, i) ==
    CHOOSE j \in i..Len(text) :
        /\ \A k \in i..j : ~IsSpace(text[k])
        /\ (j = Len(text) \/ IsSpace(text[j + 1]))

\* The elements of a finite set of integers in increasing order.
RECURSIVE Ascending(_)
Ascending(S) ==
    IF S = {} THEN <<>>
    ELSE LET m == CHOOSE x \in S : \A y \in S : x <= y
         IN  <<m>> \o Ascending(S \ {m})

\* re.finditer(r"\S+", text): (m.start(), m.end()) of every word, 0-based and
\* half-open as in Python.
FindWordSpans(text) ==
    LET starts == Ascending(WordStarts(text))
    IN  [k \in 1..Len(starts) |-> <<starts[k] - 1, WordEnd(text, starts[k])>>]

\* len(s.split())
words_in(s) == Cardinality(WordStarts(s))

BreakPrefix == <<"b", "r", "e", "a", "k", " ", "(">>

_is_break_paragraph(text, override) ==
    /\ override # None
    /\ StartsWith(Lower(Strip(text)), BreakPrefix)

\* ------------------------------------------------------------- segmenter

\* text.replace("\r\n", "\n").replace("\r", "\n")
RECURSIVE NormalizeNewlines(_)
NormalizeNewlines(t) ==
    IF t = <<>> THEN <<>>
    ELSE IF t[1] = "\r"
    THEN IF Len(t) >= 2 /\ t[2] = "\n"
         THEN <<"\n">> \o NormalizeNewlines(SubSeq(t, 3, Len(t)))
         ELSE <<"\n">> \o NormalizeNewlines(Tail(t))
    ELSE <<t[1]>> \o NormalizeNewlines(Tail(t))

\* The end of the match of \n\s*\n+ that starts at the newline t[i], or 0 when
\* there is none: \s* is greedy and gives back down to the last newline of the
\* whitespace that follows t[i].
SeparatorEnd(t, i) ==
    LET run == {j \in (i + 1)..Len(t) : \A k \in (i + 1)..j : IsSpace(t[k])}
        newlines == {j \in run : t[j] = "\n"}
    IN  IF newlines = {} THEN 0
        ELSE CHOOSE j \in newlines : \A k \in newlines : k <= j

\* re.split(r"\n\s*\n+", text)
RECURSIVE ReSplit(_)
ReSplit(t) ==
    LET starts == {i \in 1..Len(t) : t[i] = "\n" /\ SeparatorEnd(t, i) > 0}
    IN  IF starts = {} THEN <<t>>
        ELSE LET i == CHOOSE x \in starts : \A y \in starts : x <= y
             IN  <<SubSeq(t, 1, i - 1)>>
                 \o ReSplit(SubSeq(t, SeparatorEnd(t, i) + 1, Len(t)))

split_paragraphs(md_text) ==
    LET parts == ReSplit(NormalizeNewlines(md_text))
        stripped == [k \in 1..Len(parts) |-> Strip(parts[k])]
    IN  SelectSeq(stripped, LAMBDA q : q # <<>>)

Digits == {"0", "1", "2", "3", "4", "5", "6", "7", "8", "9"}

DigitValue(c) ==
    CASE c = "0" -> 0 [] c = "1" -> 1 [] c = "2" -> 2 [] c = "3" -> 3
      [] c = "4" -> 4 [] c = "5" -> 5 [] c = "6" -> 6 [] c = "7" -> 7
      [] c = "8" -> 8 [] OTHER -> 9

\* The last position of the run of digits that starts at i (i - 1 when t[i] is
\* no digit).
DigitRunEnd(t, i) ==
    LET run == {j \in i..Len(t) : \A k \in i..j : t[k] \in Digits}
    IN  IF run = {} THEN i - 1 ELSE CHOOSE j \in run : \A k \in run : k <= j

TokenOpening == <<"[", "b", "r", "e", "a", "k", ":">>

\* BREAK_TOKEN_RE matched at position i: [end |-> last position of the match,
\* whole, frac |-> the digits of group 1 before and after the point], or end 0
\* when the pattern does not match there.
TokenAt(t, i) ==
    LET no == [end |-> 0, whole |-> <<>>, frac |-> <<>>]
        d == i + Len(TokenOpening)
    IN  IF ~(d - 1 <= Len(t) /\ Lower(SubSeq(t, i, d - 1)) = TokenOpening) THEN no
        ELSE LET e1 == DigitRunEnd(t, d)
             IN  IF e1 < d THEN no
                 ELSE LET e2 == IF e1 + 1 <= Len(t) /\ t[e1 + 1] = "."
                                THEN DigitRunEnd(t, e1 + 2)
                                ELSE 0
                      IN  IF e2 >= e1 + 2 /\ e2 + 1 <= Len(t) /\ t[e2 + 1] = "]"
                          THEN [end |-> e2 + 1, whole |-> SubSeq(t, d, e1),
                                frac |-> SubSeq(t, e1 + 2, e2)]
                          ELSE IF e1 + 1 <= Len(t) /\ t[e1 + 1] = "]"
                          THEN [end |-> e1 + 1, whole |-> SubSeq(t, d, e1),
                                frac |-> <<>>]
                          ELSE no

RECURSIVE NumberOf(_)
NumberOf(digits) ==
    IF digits = <<>> THEN 0
    ELSE 10 * NumberOf(SubSeq(digits, 1, Len(digits) - 1))
         + DigitValue(digits[Len(digits)])

\* The whole milliseconds in the decimal whole.frac seconds.
WholeMs(whole, frac) ==
    LET padded == frac \o <<"0", "0", "0">>
    IN  1000 * NumberOf(whole) + NumberOf(SubSeq(padded, 1, 3))

\* The numbers of milliseconds v, among those the model writes in a token, for
\* which the double product float("v/1000") * 1000 lies below v:
\* float("2.01") * 1000 is 2009.9999999999998, while 0.0 and 2.0 give 0.0 and
\* 2000.0.
ProductFallsShort(v) == v \in {2010}

\* int(sec * 1000) for sec = float(group 1): int() cuts the double product
\* towards zero.
IntOfSecTimes1000(whole, frac) ==
    LET v == WholeMs(whole, frac)
    IN  IF ProductFallsShort(v) THEN v - 1 ELSE v

RECURSIVE DropLeadingZeros(_)
DropLeadingZeros(digits) ==
    IF Len(digits) > 1 /\ digits[1] = "0" THEN DropLeadingZeros(Tail(digits))
    ELSE digits

RECURSIVE DropTrailingZeros(_)
DropTrailingZeros(digits) ==
    IF digits # <<>> /\ digits[Len(digits)] = "0"
    THEN DropTrailingZeros(SubSeq(digits, 1, Len(digits) - 1))
    ELSE digits

\* f"{sec:g}" for a number of at most six significant digits below 10^6: no
\* exponent, no trailing zeros, no point without a fraction.
FormatG(whole, frac) ==
    LET w == DropLeadingZeros(whole)
        f == DropTrailingZeros(frac)
    IN  IF f = <<>> THEN w ELSE w \o <<".">> \o f

\* f"Break ({sec:g} s)"
BreakParagraph(label) ==
    <<"B", "r", "e", "a", "k", " ", "(">> \o label \o <<" ", "s", ")">>

\* expanded.append(x); overrides.append(o)
AppendUnit(acc, x, o) ==
    [acc EXCEPT !.expanded = Append(@, x), !.overrides = Append(@, o)]

\* The loop over BREAK_TOKEN_RE.finditer(para), from position pos on, with
\* last_end characters of para consumed.
RECURSIVE ExpandTokens(_, _, _, _)
ExpandTokens(para, pos, last_end, acc) ==
    LET found == {i \in pos..Len(para) : TokenAt(para, i).end > 0}
    IN  IF found = {}
        THEN [acc |-> acc, last_end |-> last_end, had_token |-> pos > 1]
        ELSE LET i == CHOOSE x \in found : \A y \in found : x <= y
                 m == TokenAt(para, i)
                 before == SubSeq(para, last_end + 1, i - 1)
                 a1 == IF before # <<>> /\ Strip(before) # <<>>
                       THEN AppendUnit(acc, Strip(before), None)
                       ELSE acc
                 a2 == AppendUnit(a1, BreakParagraph(FormatG(m.whole, m.frac)),
                                  Some(IntOfSecTimes1000(m.whole, m.frac)))
             IN  ExpandTokens(para, m.end + 1, m.end, a2)

\* The body of the loop "for para in paragraphs".
ExpandParagraph(acc, para) ==
    LET r == ExpandTokens(para, 1, 0, acc)
        rest == SubSeq(para, r.last_end + 1, Len(para))
    IN  IF r.had_token
        THEN IF rest # <<>> /\ Strip(rest) # <<>>
             THEN AppendUnit(r.acc, Strip(rest), None)
             ELSE r.acc
        ELSE AppendUnit(r.acc, para, None)

RECURSIVE ExpandFrom(_, _, _)
ExpandFrom(paras, k, acc) ==
    IF k > Len(paras) THEN acc
    ELSE ExpandFrom(paras, k + 1, ExpandParagraph(acc, paras[k]))

expand_breaks(paras) ==
    ExpandFrom(paras, 1, [expanded |-> <<>>, overrides |-> <<>>])

\* ------------------------------------------------------------ parse_args

\* The command line values of the model, (--spw, --wpm) in (ms per word, words per
\* minute); 0.0 and 150.0 are the defaults of the parser.
SpwValues == {-1000, 0, 1000}

WpmValues == {-150, 0, 150}

MinSecValues == {0, 2000}

MaxSecValues == {None, Some(0), Some(2)}

StartDelayValues == {0, 5}

\* 60.0 / float(wpm) seconds, in milliseconds.
SecondsPerWordOf(wpm) == 60000 \div wpm

\* The two validations of parse_args, as written: each tests the value's truth
\* first, so a value of 0 passes both.
SpwRejected(args) == args.spw # 0 /\ args.spw < 0

WpmRejected(args) == args.wpm # 0 /\ args.wpm <= 0

\* parse_args: "error" is ap.error (usage message, exit status 2), "crash" the
\* ZeroDivisionError of 60.0 / 0.0, "ok" the returned namespace.
parse_args(args) ==
    IF SpwRejected(args) THEN [outcome |-> "error", args |-> args]
    ELSE IF WpmRejected(args) THEN [outcome |-> "error", args |-> args]
    ELSE IF args.spw = 0
         THEN IF args.wpm = 0
              THEN [outcome |-> "crash", args |-> args]
              ELSE [outcome |-> "ok",
                    args |-> [args EXCEPT !.spw = SecondsPerWordOf(args.wpm)]]
         ELSE [outcome |-> "ok", args |-> args]

\* ------------------------------------------------------ duration calculator

\* The per-word rate paragraph_duration_ms multiplies by.
EffectiveSpw(o) == IF o.wpm # 0 THEN SecondsPerWordOf(o.wpm) ELSE o.spw

paragraph_duration_ms(o, text) ==
    LET dur == Max(o.min_sec, words_in(text) * EffectiveSpw(o))
    IN  IF o.max_sec # None THEN Min(dur, ValueOf(o.max_sec)) ELSE dur

\* ------------------------------------------------------------------ state

VARIABLES
    pc,                     \* "args", "error", "crash", "main", "nopara", "run", "quit"
    opts,                   \* the argparse namespace
    input,                  \* the units main() obtains from the input text
    paragraphs,             \* self.paragraphs
    duration_overrides_ms,  \* self.duration_overrides_ms
    idx,                    \* self.idx
    paused,                 \* self.paused
    timer_id,               \* self.timer_id
    word_timer_id,          \* self.word_timer_id
    word_spans,             \* self.word_spans
    current_word_index,     \* self.current_word_index
    word_intervals_ms,      \* self._word_intervals_ms
    next_interval_idx,      \* self._next_interval_idx
    status,                 \* the text of the status label
    text,                   \* the content of the Text widget
    spoken,                 \* the character range carrying the "spoken" tag
    timers,                 \* Tk's table of pending "after" callbacks
    clock,                  \* ms since construction, while the start delay runs
    visited,                \* history: the cursor values set since the last render
    advances,               \* history: the advances made by the last handler
    entry,                  \* history: idx, paused and cursor when the last handler began
    last,                   \* history: the last handler that ran
    calc                    \* the inputs and result of a calculation checked alone

vars ==
    <<pc, opts, input, paragraphs, duration_overrides_ms, idx, paused, timer_id,
      word_timer_id, word_spans, current_word_index, word_intervals_ms,
      next_interval_idx, status, text, spoken, timers, clock, visited, advances,
      entry, last, calc>>

\* The Teleprompter object, the widgets and the timer table as one record, so
\* that a method is an operator from record to record.
Self ==
    [idx |-> idx, paused |-> paused, timer_id |-> timer_id,
     word_timer_id |-> word_timer_id, word_spans |-> word_spans,
     current_word_index |-> current_word_index,
     word_intervals_ms |-> word_intervals_ms,
     next_interval_idx |-> next_interval_idx, status |-> status, text |-> text,
     spoken |-> spoken, timers |-> timers, visited |-> visited,
     advances |-> advances, entry |-> entry]

Commit(s) ==
    /\ idx' = s.idx
    /\ paused' = s.paused
    /\ timer_id' = s.timer_id
    /\ word_timer_id' = s.word_timer_id
    /\ word_spans' = s.word_spans
    /\ current_word_index' = s.current_word_index
    /\ word_intervals_ms' = s.word_intervals_ms
    /\ next_interval_idx' = s.next_interval_idx
    /\ status' = s.status
    /\ text' = s.text
    /\ spoken' = s.spoken
    /\ timers' = s.timers
    /\ visited' = s.visited
    /\ advances' = s.advances
    /\ entry' = s.entry

\* ------------------------------------------------------------- Tk timers

\* root.after returns an identifier Tk never hands out again.  The model takes
\* the least number that no pending timer and no stored handle carries, so a
\* stale handle never names a later timer.
NewId(s) ==
    LET used == {t.id : t \in s.timers} \cup
                {ValueOf(h) : h \in {s.timer_id, s.word_timer_id} \ {None}}
    IN  CHOOSE n \in 1..(Cardinality(used) + 1) : n \notin used

\* root.after(ms, cb) with identifier id.  hold is the last_hold_ms the closure
\* of a tick carries; unit and fresh are history: the unit current when the
\* timer was registered, and whether the running handler registered it.
After(s, id, ms, cb, hold) ==
    [s EXCEPT !.timers = @ \cup {[id |-> id, cb |-> cb, ms |-> ms, hold |-> hold,
                                  unit |-> s.idx, fresh |-> TRUE]}]

\* root.after_cancel(id): no effect on an identifier that is not pending.
after_cancel(s, id) == [s EXCEPT !.timers = {t \in @ : t.id # id}]

\* cancel_timer() without its second half: the word timer is left alone.
cancel_timer_primary_only(s) ==
    IF s.timer_id # None
    THEN [after_cancel(s, ValueOf(s.timer_id)) EXCEPT !.timer_id = None]
    ELSE s

cancel_timer(s) ==
    LET s1 == IF s.timer_id # None
              THEN [after_cancel(s, ValueOf(s.timer_id)) EXCEPT !.timer_id = None]
              ELSE s
    IN  IF s1.word_timer_id # None
        THEN [after_cancel(s1, ValueOf(s1.word_timer_id))
                 EXCEPT !.word_timer_id = None]
        ELSE s1

\* ------------------------------------------------------------- rendering

set_status(s, msg) == [s EXCEPT !.status = msg]

OverrideAt(i) ==
    IF 0 <= i /\ i < Len(duration_overrides_ms)
    THEN duration_overrides_ms[i + 1]
    ELSE None

\* _render_paragraph() finding the words of a break as well.
_render_paragraph_highlighting_breaks(s, p) ==
    [s EXCEPT !.word_spans = FindWordSpans(p), !.current_word_index = -1,
              !.text = p, !.spoken = None, !.visited = <<>>]

_render_paragraph(s, p) ==
    LET s1 == [s EXCEPT !.word_spans = <<>>, !.current_word_index = -1,
                        !.text = p, !.spoken = None, !.visited = <<>>]
    IN  IF ~_is_break_paragraph(p, OverrideAt(s.idx))
        THEN [s1 EXCEPT !.word_spans = FindWordSpans(p)]
        ELSE s1

_highlight_up_to(s, word_index) ==
    IF s.word_spans = <<>> THEN s
    ELSE LET cwi == Max(0, Min(word_index, Len(s.word_spans) - 1))
         IN  [s EXCEPT !.current_word_index = cwi,
                       !.spoken = <<s.word_spans[1][1], s.word_spans[cwi + 1][2]>>,
                       !.visited = Append(@, cwi)]

\* ------------------------------------------------------------- scheduler

\* The integer partition of total_ms over words_count words.
LastHoldMs(total_ms, words_count) ==
    LET per_word_floor == total_ms \div words_count
        extra == total_ms % words_count
    IN  per_word_floor + (IF extra > 0 THEN 1 ELSE 0)

\* The transition intervals with the remainder of the division dropped.
WordIntervalsMs_without_remainder(total_ms, words_count) ==
    LET remaining_ms == total_ms - LastHoldMs(total_ms, words_count)
        transitions == words_count - 1
        base_transition == remaining_ms \div transitions
    IN  [k \in 1..transitions |-> base_transition]

\* The transition intervals with the remainder given to the last ones.
WordIntervalsMs_remainder_last(total_ms, words_count) ==
    LET remaining_ms == total_ms - LastHoldMs(total_ms, words_count)
        transitions == words_count - 1
        base_transition == remaining_ms \div transitions
        remainder_transition == remaining_ms % transitions
    IN  [k \in 1..transitions |->
            base_transition
            + (IF transitions - k < remainder_transition THEN 1 ELSE 0)]

WordIntervalsMs(total_ms, words_count) ==
    LET remaining_ms == total_ms - LastHoldMs(total_ms, words_count)
        transitions == words_count - 1
        base_transition == remaining_ms \div transitions
        remainder_transition == remaining_ms % transitions
    IN  [k \in 1..transitions |->
            base_transition + (IF k - 1 < remainder_transition THEN 1 ELSE 0)]

\* The delay schedule_next and tick hand to root.after for a computed interval.
TimerDelay(ms) == Max(1, ms)

\* schedule_next() going to the final hold one transition early.
schedule_next_holding_early(s, last_hold_ms) ==
    IF s.paused THEN s
    ELSE IF s.next_interval_idx + 1 >= Len(s.word_intervals_ms)
    THEN LET s1 == [s EXCEPT !.word_timer_id = None]
             id == NewId(s1)
         IN  [After(s1, id, TimerDelay(last_hold_ms), "auto_next", 0)
                 EXCEPT !.timer_id = Some(id)]
    ELSE LET delay == s.word_intervals_ms[s.next_interval_idx + 1]
             id == NewId(s)
         IN  [After(s, id, TimerDelay(delay), "tick", last_hold_ms)
                 EXCEPT !.word_timer_id = Some(id)]

\* schedule_next(), the closure of _start_word_highlighting over last_hold_ms.
schedule_next(s, last_hold_ms) ==
    IF s.paused THEN s
    ELSE IF s.next_interval_idx >= Len(s.word_intervals_ms)
    THEN LET s1 == [s EXCEPT !.word_timer_id = None]
             id == NewId(s1)
         IN  [After(s1, id, TimerDelay(last_hold_ms), "auto_next", 0)
                 EXCEPT !.timer_id = Some(id)]
    ELSE LET delay == s.word_intervals_ms[s.next_interval_idx + 1]
             id == NewId(s)
         IN  [After(s, id, TimerDelay(delay), "tick", last_hold_ms)
                 EXCEPT !.word_timer_id = Some(id)]

\* tick() with the cursor moved two words on.
tick_skipping_a_word(s, last_hold_ms) ==
    IF s.paused THEN s
    ELSE LET next_index == s.current_word_index + 2
         IN  IF next_index < Len(s.word_spans)
             THEN schedule_next(
                      [_highlight_up_to(s, next_index)
                          EXCEPT !.next_interval_idx = @ + 1],
                      last_hold_ms)
             ELSE LET s1 == [s EXCEPT !.word_timer_id = None]
                      id == NewId(s1)
                  IN  [After(s1, id, 1, "auto_next", 0)
                          EXCEPT !.timer_id = Some(id)]

\* tick(), the closure of schedule_next.
tick(s, last_hold_ms) ==
    IF s.paused THEN s
    ELSE LET next_index == s.current_word_index + 1
         IN  IF next_index < Len(s.word_spans)
             THEN schedule_next(
                      [_highlight_up_to(s, next_index)
                          EXCEPT !.next_interval_idx = @ + 1],
                      last_hold_ms)
             ELSE LET s1 == [s EXCEPT !.word_timer_id = None]
                      id == NewId(s1)
                  IN  [After(s1, id, 1, "auto_next", 0)
                          EXCEPT !.timer_id = Some(id)]

RECURSIVE show_current(_, _)
RECURSIVE auto_next(_)
RECURSIVE _start_word_highlighting(_, _)

\* _start_word_highlighting() leaving the advance of a unit without duration
\* to a timer of 0 ms.
_start_word_highlighting_deferring(s, total_ms) ==
    IF s.word_spans = <<>> \/ total_ms <= 0
    THEN LET s1 == _highlight_up_to(s, Len(s.word_spans) - 1)
             id == NewId(s1)
         IN  [After(s1, id, Max(0, total_ms), "auto_next", 0)
                 EXCEPT !.timer_id = Some(id)]
    ELSE LET s1 == _highlight_up_to(s, 0)
             words_count == Len(s.word_spans)
         IN  IF words_count = 1
             THEN LET id == NewId(s1)
                  IN  [After(s1, id, total_ms, "auto_next", 0)
                          EXCEPT !.word_timer_id = Some(id)]
             ELSE schedule_next(
                      [s1 EXCEPT
                          !.word_intervals_ms =
                              WordIntervalsMs(total_ms, words_count),
                          !.next_interval_idx = 0],
                      LastHoldMs(total_ms, words_count))

_start_word_highlighting(s, total_ms) ==
    IF s.word_spans = <<>>
    THEN LET id == NewId(s)
         IN  [After(s, id, Max(0, total_ms), "auto_next", 0)
                 EXCEPT !.timer_id = Some(id)]
    ELSE LET words_count == Len(s.word_spans)
         IN  IF total_ms <= 0
             THEN auto_next(_highlight_up_to(s, words_count - 1))
             ELSE LET s1 == _highlight_up_to(s, 0)
                  IN  IF words_count = 1
                      THEN LET id == NewId(s1)
                           IN  [After(s1, id, total_ms, "auto_next", 0)
                                   EXCEPT !.word_timer_id = Some(id)]
                      ELSE schedule_next(
                               [s1 EXCEPT
                                   !.word_intervals_ms =
                                       WordIntervalsMs(total_ms, words_count),
                                   !.next_interval_idx = 0],
                               LastHoldMs(total_ms, words_count))

\* ------------------------------------------------------------ controller

NoParagraphsText ==
    <<"(", "N", "o", " ", "p", "a", "r", "a", "g", "r", "a", "p", "h", "s", ")">>

\* The duration show_current starts the chain of the current unit with.
TotalMs(i) ==
    IF OverrideAt(i) # None
    THEN ValueOf(OverrideAt(i))
    ELSE paragraph_duration_ms(opts, paragraphs[i + 1])

show_current(s, start_timer) ==
    IF paragraphs = <<>>
    THEN set_status([s EXCEPT !.text = NoParagraphsText, !.spoken = None], <<>>)
    ELSE LET p == paragraphs[s.idx + 1]
             s1 == _render_paragraph(s, p)
             s2 == set_status(s1, <<"Pos", s.idx + 1, Len(paragraphs)>>)
             s3 == cancel_timer(s2)
         IN  IF start_timer /\ ~s3.paused
             THEN IF _is_break_paragraph(p, OverrideAt(s3.idx))
                  THEN LET id == NewId(s3)
                       IN  [After(s3, id, TotalMs(s3.idx), "auto_next", 0)
                               EXCEPT !.timer_id = Some(id)]
                  ELSE _start_word_highlighting(s3, TotalMs(s3.idx))
             ELSE s3

\* auto_next() leaving the status of the last unit as it is.
auto_next_never_done(s) ==
    IF s.idx < Len(paragraphs) - 1
    THEN show_current(
             [s EXCEPT !.idx = @ + 1,
                       !.advances = Append(@, [from |-> s.idx,
                                               visited |-> s.visited,
                                               words |-> Len(s.word_spans)])],
             TRUE)
    ELSE cancel_timer(s)

\* advances records each advance: the unit left, the cursor values it had
\* shown, and its number of words.
auto_next(s) ==
    IF s.idx < Len(paragraphs) - 1
    THEN show_current(
             [s EXCEPT !.idx = @ + 1,
                       !.advances = Append(@, [from |-> s.idx,
                                               visited |-> s.visited,
                                               words |-> Len(s.word_spans)])],
             TRUE)
    ELSE set_status(cancel_timer(s), <<"Done">>)

\* next_manual() that also leaves the pause.
next_manual_unpausing(s) ==
    LET s1 == cancel_timer(s)
        s2 == IF s1.idx < Len(paragraphs) - 1 THEN [s1 EXCEPT !.idx = @ + 1] ELSE s1
    IN  show_current([s2 EXCEPT !.paused = FALSE], TRUE)

next_manual(s) ==
    LET s1 == cancel_timer(s)
        s2 == IF s1.idx < Len(paragraphs) - 1 THEN [s1 EXCEPT !.idx = @ + 1] ELSE s1
    IN  show_current(s2, ~s2.paused)

\* prev_manual() going round to the last unit from unit 0.
prev_manual_wrapping(s) ==
    LET s1 == cancel_timer(s)
        s2 == [s1 EXCEPT !.idx = (@ - 1) % Len(paragraphs)]
    IN  show_current(s2, ~s2.paused)

prev_manual(s) ==
    LET s1 == cancel_timer(s)
        s2 == IF s1.idx > 0 THEN [s1 EXCEPT !.idx = @ - 1] ELSE s1
    IN  show_current(s2, ~s2.paused)

\* toggle_pause() resuming without show_current: the unit is not started again.
toggle_pause_without_restart(s) ==
    LET s1 == [s EXCEPT !.paused = ~@]
    IN  IF s1.paused
        THEN set_status(cancel_timer(s1), <<"Paused", s1.idx + 1, Len(paragraphs)>>)
        ELSE set_status(s1, <<"Pos", s1.idx + 1, Len(paragraphs)>>)

toggle_pause(s) ==
    LET s1 == [s EXCEPT !.paused = ~@]
    IN  IF s1.paused
        THEN set_status(cancel_timer(s1), <<"Paused", s1.idx + 1, Len(paragraphs)>>)
        ELSE show_current(s1, TRUE)

start_show(s) == show_current([s EXCEPT !.paused = FALSE], TRUE)

restart(s) ==
    show_current([cancel_timer(s) EXCEPT !.idx = 0, !.paused = FALSE], TRUE)

\* ----------------------------------------------------------- the program

\* The longest unit sequence the model plays.
MaxUnits == 2

GoText == <<"G", "o">>

\* A three-word paragraph of the user's that begins like a generated break.
BreakLikeText == <<"B", "r", "e", "a", "k", " ", "(", "a", " ", "b">>

\* f"Break ({sec:g} s)" for a one-digit number of seconds.
BreakText(digit) == <<"B", "r", "e", "a", "k", " ", "(", digit, " ", "s", ")">>

\* Units as expand_breaks emits them: a stripped text with a word in it and no
\* override, or a generated break text with its override in ms.
UnitKinds ==
    {[text |-> GoText, override |-> None],
     [text |-> BreakLikeText, override |-> None],
     [text |-> BreakText("2"), override |-> Some(2000)]}

Scripts == UNION {[1..n -> UnitKinds] : n \in 0..MaxUnits}

Argvs ==
    [spw : SpwValues, wpm : WpmValues, min_sec : MinSecValues,
     max_sec : MaxSecValues, start_delay_ms : StartDelayValues]

\* The state before Teleprompter.__init__ has run.
NotConstructed ==
    /\ pc = "args"
    /\ paragraphs = <<>>
    /\ duration_overrides_ms = <<>>
    /\ idx = 0
    /\ paused = FALSE
    /\ timer_id = None
    /\ word_timer_id = None
    /\ word_spans = <<>>
    /\ current_word_index = -1
    /\ word_intervals_ms = <<>>
    /\ next_interval_idx = 0
    /\ status = <<>>
    /\ text = <<>>
    /\ spoken = None
    /\ timers = {}
    /\ clock = 0
    /\ visited = <<>>
    /\ advances = <<>>
    /\ entry = [idx |-> 0, paused |-> FALSE, cursor |-> -1]
    /\ last = "none"

Init ==
    /\ NotConstructed
    /\ opts \in Argvs
    /\ input \in Scripts
    /\ calc = [kind |-> "none"]

Teleprompter == <<idx, paused, timer_id, word_timer_id, word_spans,
                  current_word_index, word_intervals_ms, next_interval_idx,
                  status, text, spoken, timers, clock, visited, advances,
                  entry>>

\* args = parse_args()
ParseArgs ==
    /\ pc = "args"
    /\ LET r == parse_args(opts)
       IN  /\ pc' = (CASE r.outcome = "error" -> "error"
                       [] r.outcome = "crash" -> "crash"
                       [] OTHER -> "main")
           /\ opts' = r.args
    /\ last' = "parse_args"
    /\ UNCHANGED <<calc, input, paragraphs, duration_overrides_ms, Teleprompter>>

\* main(): the units of the input text; sys.exit(1) when there are none.
ReadInput ==
    /\ pc = "main"
    /\ paragraphs' = [i \in 1..Len(input) |-> input[i].text]
    /\ duration_overrides_ms' = [i \in 1..Len(input) |-> input[i].override]
    /\ pc' = IF input = <<>> THEN "nopara" ELSE "init"
    /\ last' = "main"
    /\ UNCHANGED <<calc, opts, input, Teleprompter>>

\* History kept at the start of a handler: the timers pending now were not
\* registered by it, it has made no advance yet, and it begins at s.idx,
\* s.paused and s.current_word_index.
Begin(s) ==
    [s EXCEPT !.timers = {[t EXCEPT !.fresh = FALSE] : t \in @},
              !.advances = <<>>,
              !.entry = [idx |-> s.idx, paused |-> s.paused,
                         cursor |-> s.current_word_index]]

\* The "# Start" block of Teleprompter.__init__; the identifier root.after
\* returns for start_show is not kept.
StartBlock(s) ==
    IF opts.start_delay_ms > 0
    THEN After(set_status(s, <<"Starting">>), NewId(s), opts.start_delay_ms,
               "start_show", 0)
    ELSE start_show(s)

\* Teleprompter(root, paras, args, overrides)
Construct ==
    /\ pc = "init"
    /\ pc' = "run"
    /\ Commit(StartBlock(Begin(Self)))
    /\ clock' = 0
    /\ last' = "__init__"
    /\ UNCHANGED <<calc, opts, input, paragraphs, duration_overrides_ms>>

StartPending == \E t \in timers : t.cb = "start_show"

\* A key press: the bound handler runs.
KeyPress(name, result) ==
    /\ pc = "run"
    /\ Commit(result)
    /\ last' = name
    /\ UNCHANGED <<calc, pc, opts, input, paragraphs, duration_overrides_ms, clock>>

KeyPause == KeyPress("toggle_pause", toggle_pause(Begin(Self)))

KeyNext == KeyPress("next_manual", next_manual(Begin(Self)))

KeyPrev == KeyPress("prev_manual", prev_manual(Begin(Self)))

KeyRestart == KeyPress("restart", restart(Begin(Self)))

\* Escape: root.destroy() ends the main loop and drops the pending callbacks.
KeyQuit ==
    /\ pc = "run"
    /\ pc' = "quit"
    /\ timers' = {}
    /\ last' = "destroy"
    /\ UNCHANGED <<calc, opts, input, paragraphs, duration_overrides_ms, idx, paused,
                   timer_id, word_timer_id, word_spans, current_word_index,
                   word_intervals_ms, next_interval_idx, status, text, spoken,
                   clock, visited, advances, entry>>

\* The state a callback of timer t starts from: Tk has dropped t from its table.
Fired(t) == Begin([Self EXCEPT !.timers = @ \ {t}])

\* The start delay has run out.
FireStartShow ==
    /\ pc = "run"
    /\ \E t \in timers :
        /\ t.cb = "start_show"
        /\ Commit(start_show(Fired(t)))
    /\ clock' = 0
    /\ last' = "start_show"
    /\ UNCHANGED <<calc, pc, opts, input, paragraphs, duration_overrides_ms>>

\* Tk runs callbacks in the order of their due times: a timer registered no
\* earlier than clock and due ms later comes before start_show only when it is
\* due before the start delay ends.
DueInTime(t) == StartPending => clock + t.ms < opts.start_delay_ms

FirePlayback(t, result) ==
    /\ pc = "run"
    /\ DueInTime(t)
    /\ Commit(result)
    /\ clock' = IF StartPending THEN clock + t.ms ELSE 0
    /\ last' = t.cb
    /\ UNCHANGED <<calc, pc, opts, input, paragraphs, duration_overrides_ms>>

FireAutoNext ==
    \E t \in timers :
        /\ t.cb = "auto_next"
        /\ FirePlayback(t, auto_next(Fired(t)))

FireTick ==
    \E t \in timers :
        /\ t.cb = "tick"
        /\ FirePlayback(t, tick(Fired(t), t.hold))

Next ==
    \/ ParseArgs
    \/ ReadInput
    \/ Construct
    \/ KeyPause
    \/ KeyNext
    \/ KeyPrev
    \/ KeyRestart
    \/ KeyQuit
    \/ FireStartShow
    \/ FireAutoNext
    \/ FireTick

Spec == Init /\ [][Next]_vars

\* ------------------------------------------- the partition, checked alone

MaxTotalMs == 1000

MaxWords == 6

DefaultArgv ==
    [spw |-> 0, wpm |-> 150, min_sec |-> 2000, max_sec |-> None,
     start_delay_ms |-> 500]

PartitionInit ==
    /\ NotConstructed
    /\ opts = DefaultArgv
    /\ input = <<>>
    /\ calc \in [kind : {"in"}, total_ms : 1..MaxTotalMs, words : 2..MaxWords,
                 intervals : {<<>>}, hold : {0}]

\* Lines 343-350 of _start_word_highlighting on (total_ms, words_count).
Partition ==
    /\ calc.kind = "in"
    /\ calc' = [calc EXCEPT !.kind = "out",
                            !.intervals = WordIntervalsMs(calc.total_ms, calc.words),
                            !.hold = LastHoldMs(calc.total_ms, calc.words)]
    /\ UNCHANGED <<pc, opts, input, paragraphs, duration_overrides_ms,
                   Teleprompter, last>>

PartitionNext == Partition

PartitionSpec == PartitionInit /\ [][PartitionNext]_vars

\* ------------------------------------------------ uninterrupted playback

\* The program with no key pressed: the main loop runs the timer callbacks.
PlaybackNext ==
    \/ ParseArgs
    \/ ReadInput
    \/ Construct
    \/ FireStartShow
    \/ FireAutoNext
    \/ FireTick

\* The main loop runs every callback that is due.
PlaybackSpec ==
    /\ Init
    /\ [][PlaybackNext]_vars
    /\ WF_vars(FireStartShow)
    /\ WF_vars(FireAutoNext)
    /\ WF_vars(FireTick)

\* --------------------------------------------------- the segmenter alone

MaxPieces == 3

Chars(kind, chars, ms, label) ==
    [kind |-> kind, chars |-> chars, ms |-> ms, label |-> label]

\* What a script is written from: text, a blank line, and break tokens with
\* the milliseconds and the seconds they are written for.
Pieces ==
    { Chars("text", <<"A">>, 0, <<>>),
      Chars("text", <<" ">>, 0, <<>>),
      Chars("text", <<"[", "b", "r", "e", "a", "k", ":", "x", "]">>, 0, <<>>),
      Chars("blank", <<"\n", "\n">>, 0, <<>>),
      Chars("blank", <<"\r", "\n", " ", "\r", "\n">>, 0, <<>>),
      Chars("token", <<"[", "b", "r", "e", "a", "k", ":", "2", "]">>,
            2000, <<"2">>),
      Chars("token", <<"[", "B", "r", "e", "a", "k", ":", "0", ".", "5", "0", "]">>,
            500, <<"0", ".", "5">>),
      Chars("token", <<"[", "B", "R", "E", "A", "K", ":", "2", ".", "0", "1", "]">>,
            2010, <<"2", ".", "0", "1">>) }

PieceSeqs == UNION {[1..n -> Pieces] : n \in 0..MaxPieces}

RECURSIVE Concat(_)
Concat(ps) == IF ps = <<>> THEN <<>> ELSE ps[1].chars \o Concat(Tail(ps))

SegmentInit ==
    /\ NotConstructed
    /\ opts = DefaultArgv
    /\ input = <<>>
    /\ calc \in {[kind |-> "in", pieces |-> ps, text |-> Concat(ps),
                  expanded |-> <<>>, overrides |-> <<>>] : ps \in PieceSeqs}

\* Lines 456-457 of main on the text read.
Segment ==
    /\ calc.kind = "in"
    /\ LET r == expand_breaks(split_paragraphs(calc.text))
       IN  calc' = [calc EXCEPT !.kind = "out",
                                !.expanded = r.expanded,
                                !.overrides = r.overrides]
    /\ UNCHANGED <<pc, opts, input, paragraphs, duration_overrides_ms,
                   Teleprompter, last>>

SegmentNext == Segment

SegmentSpec == SegmentInit /\ [][SegmentNext]_vars

\* ----------------------------------------------------------------- claims

RECURSIVE SumSeq(_)
SumSeq(q) == IF q = <<>> THEN 0 ELSE q[1] + SumSeq(Tail(q))

\* <<0, 1, ..., n - 1>>
Iota(n) == [k \in 1..n |-> k - 1]

Running == pc = "run"

ManualNavigation == {"next_manual", "prev_manual"}

\* C1: after next_manual or prev_manual no timer that was pending before the
\* call is still pending, so none of them can fire afterwards; and every
\* pending timer was registered for the unit that is current.
C1_ManualNavigationCancelsEveryTimer ==
    /\ (Running /\ last \in ManualNavigation) => \A t \in timers : t.fresh
    /\ Running => \A t \in timers : t.unit = idx

\* C2: after restart() the index is 0, paused is false and no timer registered
\* before the restart is still pending.
C2_RestartResets ==
    (Running /\ last = "restart") =>
        /\ idx = 0
        /\ ~paused
        /\ \A t \in timers : t.fresh

\* C3 as stated: every non-break unit the scheduler advances from has shown
\* the cursor values 0, 1, ..., N-1, in this order and nothing else.
C3_EveryUnitVisitsEveryWord ==
    \A k \in 1..Len(advances) :
        advances[k].words > 0 => advances[k].visited = Iota(advances[k].words)

\* C3 as amended: a non-break unit of N words and total_ms > 0 has shown exactly
\* 0, 1, ..., N-1 in this order when the scheduler advances from it, and at any
\* moment before that a prefix of it ending at the cursor; a unit with
\* total_ms <= 0 has shown N-1 alone.
C3_CursorVisitsEveryWord ==
    /\ \A k \in 1..Len(advances) :
        LET a == advances[k]
        IN  a.words > 0 =>
                a.visited = IF TotalMs(a.from) > 0 THEN Iota(a.words)
                            ELSE <<a.words - 1>>
    /\ (Running /\ word_spans # <<>> /\ TotalMs(idx) > 0) =>
        /\ visited = Iota(Len(visited))
        /\ Len(visited) <= Len(word_spans)
        /\ current_word_index = Len(visited) - 1

\* C3 witness: a timer has advanced the scheduler from a three-word unit of
\* positive duration.
C3_Witness ==
    /\ Running
    /\ last = "auto_next"
    /\ \E k \in 1..Len(advances) :
        /\ advances[k].words = 3
        /\ TotalMs(advances[k].from) > 0
        /\ advances[k].visited = <<0, 1, 2>>

\* C4: the N-1 transition intervals and the final hold are non-negative and
\* sum to total_ms.
C4_PartitionSumsToTotal ==
    calc.kind = "out" =>
        /\ Len(calc.intervals) = calc.words - 1
        /\ \A k \in 1..Len(calc.intervals) : calc.intervals[k] >= 0
        /\ calc.hold >= 0
        /\ SumSeq(calc.intervals) + calc.hold = calc.total_ms

\* C4 witness: 1000 ms over three words is 333 + 333 + 334.
C4_Witness ==
    /\ calc.kind = "out"
    /\ calc.total_ms = 1000
    /\ calc.words = 3
    /\ calc.intervals = <<333, 333>>
    /\ calc.hold = 334

PlaybackTimers == {t \in timers : t.cb \in {"auto_next", "tick"}}

LastIndex == Len(paragraphs) - 1

IsBreakUnit(i) == _is_break_paragraph(paragraphs[i + 1], OverrideAt(i))

\* A unit whose chain advances at once: words, and no time to show them.
ZeroDurationUnit(i) == ~IsBreakUnit(i) /\ TotalMs(i) <= 0

\* C5: whenever paused is true no timer is outstanding.
C5_PausedMeansNoTimer == (Running /\ paused) => timers = {}

\* C6: at most one advance timer and at most one word timer are outstanding,
\* timer_id or word_timer_id refers to each, and when a handler has started a
\* chain no playback timer from before it is left.
C6_OneChainReachableByCancel ==
    Running =>
        /\ Cardinality({t \in PlaybackTimers : t.cb = "auto_next"}) <= 1
        /\ Cardinality({t \in PlaybackTimers : t.cb = "tick"}) <= 1
        /\ \A t \in PlaybackTimers : Some(t.id) \in {timer_id, word_timer_id}
        /\ (\E t \in PlaybackTimers : t.fresh) => \A t \in PlaybackTimers : t.fresh

\* C6 witness: next_manual, pressed while a chain was running, has started the
\* chain of a multi-word unit, whose word timer word_timer_id refers to.
C6_Witness ==
    /\ Running
    /\ last = "next_manual"
    /\ ~entry.paused
    /\ entry.idx < idx
    /\ \E t \in PlaybackTimers :
        /\ t.cb = "tick"
        /\ t.fresh
        /\ word_timer_id = Some(t.id)

\* C7: a positive --spw is the rate of the duration calculator, whatever --wpm
\* is (opts.spw is the configured value when that is positive, else 60/wpm).
C7_PositiveSpwTakesPrecedence == Running => EffectiveSpw(opts) = opts.spw

\* C8: a negative --spw or a --wpm <= 0 ends in the error of parse_args; the
\* program gets no further with it.
C8_MalformedPacingRejected ==
    (opts.spw < 0 \/ opts.wpm <= 0) => pc \in {"args", "error"}

IndexInBounds == Running => (0 <= idx /\ idx <= LastIndex)

\* C9 as stated: the index stays within the units, next_manual at the last
\* unit and prev_manual at unit 0 leave it unchanged.
C9_IndexClampedAndUnchangedAtTheEnds ==
    /\ IndexInBounds
    /\ (Running /\ last = "next_manual" /\ entry.idx = LastIndex) => idx = entry.idx
    /\ (Running /\ last = "prev_manual" /\ entry.idx = 0) => idx = 0

\* C9 as amended: the index stays within the units; next_manual at the last
\* unit leaves it unchanged; prev_manual at unit 0 leaves it 0 when paused or
\* when unit 0 is a break or has total_ms > 0, and otherwise moves it forward
\* by the immediate advances of the zero-duration chain alone.
C9_IndexClamped ==
    /\ IndexInBounds
    /\ (Running /\ last = "next_manual" /\ entry.idx = LastIndex) => idx = entry.idx
    /\ (Running /\ last = "prev_manual" /\ entry.idx = 0) =>
        /\ idx = Len(advances)
        /\ (entry.paused \/ ~ZeroDurationUnit(0)) => idx = 0

\* C9 witness: prev_manual at unit 0 of several units, playing, has left the
\* index at 0.
C9_Witness ==
    /\ Running
    /\ last = "prev_manual"
    /\ entry.idx = 0
    /\ ~entry.paused
    /\ Len(paragraphs) > 1
    /\ idx = 0

\* C10: each auto_next the timer callback makes at a unit that is not the last
\* moves the index on by exactly 1 and starts that unit's chain (a timer for
\* the unit, or the immediate auto_next of a zero-duration unit); made at the
\* last unit it leaves the index, leaves no timer outstanding and reports Done.
C10_AutoNext ==
    (Running /\ last = "auto_next") =>
        /\ \A k \in 1..Len(advances) : advances[k].from = entry.idx + k - 1
        /\ idx = entry.idx + Len(advances)
        /\ entry.idx < LastIndex => Len(advances) >= 1
        /\ IF status = <<"Done">>
           THEN idx = LastIndex /\ timers = {}
           ELSE \E t \in PlaybackTimers : t.fresh /\ t.unit = idx

\* ---------------------------------------------------- claims C11 to C20

Units == 0..LastIndex

\* The duration of the claim: the override when there is one, and otherwise
\* the words times the configured seconds per word (opts.spw, which parse_args
\* has resolved), raised to min_sec and cut to max_sec.
ClaimedDurationMs(i) ==
    IF OverrideAt(i) # None
    THEN ValueOf(OverrideAt(i))
    ELSE LET dur == Max(opts.min_sec, words_in(paragraphs[i + 1]) * opts.spw)
         IN  IF opts.max_sec # None THEN Min(dur, ValueOf(opts.max_sec)) ELSE dur

\* C11: the duration show_current gives a unit is its override when it has
\* one, and otherwise 1000 * min(max(minSeconds, wordCount * secondsPerWord),
\* maxSeconds).
C11_DurationFormula ==
    Running => \A i \in Units : TotalMs(i) = ClaimedDurationMs(i)

\* The unit a stretch of text between tokens and blank lines gives: none when
\* it is blank.
Flush(out, segment) ==
    IF Strip(segment) = <<>> THEN out
    ELSE Append(out, [text |-> Strip(segment), override |-> None])

\* The units the claim gives a script written from the pieces ps, in order.
RECURSIVE ClaimedUnits(_, _, _)
ClaimedUnits(ps, segment, out) ==
    IF ps = <<>> THEN Flush(out, segment)
    ELSE CASE ps[1].kind = "text" ->
                ClaimedUnits(Tail(ps), segment \o ps[1].chars, out)
           [] ps[1].kind = "blank" ->
                ClaimedUnits(Tail(ps), <<>>, Flush(out, segment))
           [] OTHER ->
                ClaimedUnits(Tail(ps), <<>>,
                             Append(Flush(out, segment),
                                    [text |-> BreakParagraph(ps[1].label),
                                     override |-> Some(ps[1].ms)]))

Segmented == calc.kind = "out"

\* C12: the segmenter gives one break unit "Break (X s)" with an override of
\* X * 1000 ms for each token [break:X], one unit without override for each
\* stretch of text before, between and after tokens that is not blank, nothing
\* for a blank stretch, all in the order of the source, and as many overrides
\* as units.
C12_SegmenterOutput ==
    Segmented =>
        LET units == ClaimedUnits(calc.pieces, <<>>, <<>>)
        IN  /\ Len(calc.overrides) = Len(calc.expanded)
            /\ calc.expanded = [k \in 1..Len(units) |-> units[k].text]
            /\ calc.overrides = [k \in 1..Len(units) |-> units[k].override]

\* The same with the number of milliseconds of a break unit left open.
SegmenterOutputUpToMs ==
    Segmented =>
        LET units == ClaimedUnits(calc.pieces, <<>>, <<>>)
        IN  /\ Len(calc.overrides) = Len(calc.expanded)
            /\ calc.expanded = [k \in 1..Len(units) |-> units[k].text]
            /\ \A k \in 1..Len(units) :
                   (units[k].override = None) = (calc.overrides[k] = None)

WordsOf(i) == words_in(paragraphs[i + 1])

\* The chain a playing unit of more than one word starts with: the partition
\* of its whole duration, no transition made, and the timer of the first one.
FullChainStarted ==
    LET n == WordsOf(idx)
    IN  IF n = 1
        THEN \E t \in timers :
                 /\ PlaybackTimers = {t}
                 /\ t.fresh /\ t.cb = "auto_next" /\ t.ms = TotalMs(idx)
                 /\ word_timer_id = Some(t.id)
        ELSE /\ word_intervals_ms = WordIntervalsMs(TotalMs(idx), n)
             /\ SumSeq(word_intervals_ms) + LastHoldMs(TotalMs(idx), n)
                    = TotalMs(idx)
             /\ next_interval_idx = 0
             /\ \E t \in timers :
                    /\ PlaybackTimers = {t}
                    /\ t.fresh /\ t.cb = "tick"
                    /\ t.hold = LastHoldMs(TotalMs(idx), n)
                    /\ word_timer_id = Some(t.id)

Resumed ==
    /\ Running
    /\ last = "toggle_pause"
    /\ entry.paused
    /\ ~paused

\* C13: when toggle_pause resumes on a unit that is no break, has at least one
\* word and a positive duration, the index stays, the cursor is back at word 0
\* whatever word it had reached, and a whole new chain over the unit's full
\* duration is pending.
C13_ResumeRestartsTheUnit ==
    (Resumed /\ ~IsBreakUnit(entry.idx) /\ WordsOf(entry.idx) >= 1
             /\ TotalMs(entry.idx) > 0)
        => /\ idx = entry.idx
           /\ current_word_index = 0
           /\ visited = <<0>>
           /\ FullChainStarted

\* A resume on a unit of three words whose last word had been reached.
C13_Witness ==
    /\ Resumed
    /\ ~IsBreakUnit(idx)
    /\ WordsOf(idx) = 3
    /\ TotalMs(idx) > 0
    /\ entry.cursor = 2
    /\ current_word_index = 0

\* The unit next_manual or prev_manual goes to from where the handler began.
Destination ==
    IF last = "next_manual" THEN Min(entry.idx + 1, LastIndex)
    ELSE Max(entry.idx - 1, 0)

NavigatedPaused == Running /\ last \in ManualNavigation /\ entry.paused

NavigatedPlaying == Running /\ last \in ManualNavigation /\ ~entry.paused

\* Manual navigation while paused: the index moves within the units, nothing
\* is highlighted, the pause stays and no timer is registered.
MovesAndRendersOnly ==
    NavigatedPaused =>
        /\ idx = Destination
        /\ current_word_index = -1
        /\ text = paragraphs[idx + 1]
        /\ paused
        /\ \A t \in timers : ~t.fresh

\* The one timer of a break unit that plays.
BreakTimerStarted ==
    \E t \in timers :
        /\ PlaybackTimers = {t}
        /\ t.fresh /\ t.cb = "auto_next" /\ t.ms = TotalMs(idx)
        /\ timer_id = Some(t.id)

\* C14 as stated: manual navigation while paused moves and renders only, and
\* while playing it starts a fresh chain for the unit it goes to with the
\* cursor at word 0.
C14_ManualNavigationWhilePausedAndPlaying ==
    /\ MovesAndRendersOnly
    /\ NavigatedPlaying =>
           /\ idx = Destination
           /\ current_word_index = 0
           /\ ~paused
           /\ FullChainStarted

\* C14 amended: manual navigation while paused moves and renders only; while
\* playing, on arriving at a unit that is no break and has a positive duration
\* it starts a fresh chain for that unit with the cursor at word 0, and on
\* arriving at a break it starts the one timer of the break with no word
\* highlighted.
C14_ManualNavigationByDestination ==
    /\ MovesAndRendersOnly
    /\ (NavigatedPlaying /\ ~IsBreakUnit(Destination) /\ TotalMs(Destination) > 0) =>
           /\ idx = Destination
           /\ current_word_index = 0
           /\ ~paused
           /\ FullChainStarted
    /\ (NavigatedPlaying /\ IsBreakUnit(Destination)) =>
           /\ idx = Destination
           /\ current_word_index = -1
           /\ ~paused
           /\ BreakTimerStarted

\* A move made while paused from a unit whose last word was highlighted.
C14_Witness ==
    /\ NavigatedPaused
    /\ idx # entry.idx
    /\ entry.cursor = 2

\* A move made while playing to a unit of three words.
NavigatedPlayingToWords ==
    /\ NavigatedPlaying
    /\ idx # entry.idx
    /\ ~IsBreakUnit(idx) /\ WordsOf(idx) = 3 /\ TotalMs(idx) > 0

\* The unit of more than one word the chain in progress belongs to.
MultiWordUnitPlaying ==
    /\ Running
    /\ ~IsBreakUnit(idx)
    /\ WordsOf(idx) > 1
    /\ TotalMs(idx) > 0

\* The delay of every pending timer of the chain is the interval it stands
\* for: the next transition interval for a tick, the final hold for auto_next.
DelaysAreComputed ==
    \A t \in PlaybackTimers :
        /\ (t.cb = "tick" /\ word_timer_id = Some(t.id)) =>
               t.ms = word_intervals_ms[next_interval_idx + 1]
        /\ (t.cb = "auto_next" /\ timer_id = Some(t.id)) =>
               t.ms = LastHoldMs(TotalMs(idx), WordsOf(idx))

\* C15: in a unit that is no break, has more than one word and a positive
\* duration, the delays handed to the timer for the transitions and for the
\* final hold are exactly the computed intervals and the computed hold.
C15_DelaysAreThePartition == MultiWordUnitPlaying => DelaysAreComputed

\* The same for the units none of whose intervals is below the millisecond.
DelaysAreThePartitionFromOneMs ==
    (MultiWordUnitPlaying
        /\ \A k \in 1..Len(WordIntervalsMs(TotalMs(idx), WordsOf(idx))) :
               WordIntervalsMs(TotalMs(idx), WordsOf(idx))[k] >= 1)
        => DelaysAreComputed

Abs(x) == IF x < 0 THEN -x ELSE x

Partitioned == calc.kind = "out"

\* C16: every transition interval and the final hold are within 1 ms of the
\* share total_ms / N, two transition intervals differ by at most 1 ms, and
\* the intervals one longer than the others are exactly the first rem ones,
\* rem being what the division of the time left after the hold over the N - 1
\* transitions leaves.
C16_FairPartition ==
    Partitioned =>
        LET n == calc.words
            q == calc.intervals
            rem == (calc.total_ms - calc.hold) % (n - 1)
            least == CHOOSE x \in {q[k] : k \in 1..Len(q)} :
                         \A k \in 1..Len(q) : x <= q[k]
        IN  /\ Len(q) = n - 1
            /\ \A k \in 1..Len(q) : Abs(n * q[k] - calc.total_ms) <= n
            /\ Abs(n * calc.hold - calc.total_ms) <= n
            /\ \A j, k \in 1..Len(q) : Abs(q[j] - q[k]) <= 1
            /\ \A k \in 1..Len(q) : (k <= rem) = (q[k] = least + 1 /\ rem > 0)
            /\ \A k \in 1..Len(q) : k > rem => q[k] = least

\* A partition with a longer interval and a shorter one: 11 ms over 4 words.
C16_Witness ==
    /\ Partitioned
    /\ calc.total_ms = 11
    /\ calc.words = 4
    /\ calc.intervals = <<3, 3, 2>>
    /\ calc.hold = 3

BreakPlaying == Running /\ IsBreakUnit(idx)

NotHighlighted == word_spans = <<>> /\ current_word_index = -1

\* The firing of the timer of a break that is not the last unit goes on to the
\* next unit, and that of the last unit ends the show.
BreakTimerAdvances ==
    (Running /\ last = "auto_next" /\ IsBreakUnit(entry.idx)) =>
        IF entry.idx < LastIndex
        THEN Len(advances) >= 1 /\ advances[1].from = entry.idx /\ idx > entry.idx
        ELSE idx = entry.idx /\ status = <<"Done">>

ShowInProgress == status # <<"Starting">> /\ status # <<"Done">>

BreakTimerFired ==
    /\ Running /\ last = "auto_next"
    /\ IsBreakUnit(entry.idx) /\ entry.idx < LastIndex

\* C18: starting the chain of a unit that is no break, has words and a
\* duration of 0 or less shows the cursor on its last word and advances in the
\* same step: each advance from such a unit was made with the last word the
\* only one shown, no timer is ever pending for such a unit, and the unit is
\* current and playing on the return of a handler only as the last unit, with
\* the show done and the cursor on its last word.
C18_ZeroDurationAdvancesAtOnce ==
    Running =>
        /\ \A k \in 1..Len(advances) :
               ZeroDurationUnit(advances[k].from) =>
                   /\ advances[k].words >= 1
                   /\ advances[k].visited = <<advances[k].words - 1>>
        /\ \A t \in PlaybackTimers : ~ZeroDurationUnit(t.unit)
        /\ (ZeroDurationUnit(idx) /\ ~paused /\ status # <<"Starting">>) =>
               /\ idx = LastIndex
               /\ status = <<"Done">>
               /\ current_word_index = WordsOf(idx) - 1
               /\ visited = <<WordsOf(idx) - 1>>

\* One handler has gone through two units of three words without duration.
C18_Witness ==
    /\ Running
    /\ Len(advances) = 1
    /\ ZeroDurationUnit(advances[1].from)
    /\ advances[1].visited = <<2>>
    /\ ZeroDurationUnit(idx)
    /\ current_word_index = 2
    /\ status = <<"Done">>

TimerCallbacks == {"start_show", "auto_next", "tick"}

\* C19: only toggle_pause and restart change paused, and a timer callback that
\* begins paused leaves the pause and the index as they are.
C19_OnlyTheUserChangesPaused ==
    /\ (Running /\ paused # entry.paused) => last \in {"toggle_pause", "restart"}
    /\ (Running /\ last \in TimerCallbacks /\ entry.paused) =>
           paused /\ idx = entry.idx

\* The same of the callbacks of the playback timers alone.
PlaybackCallbacksKeepPaused ==
    /\ (Running /\ paused # entry.paused) =>
           last \in {"toggle_pause", "restart", "start_show"}
    /\ (Running /\ last \in {"auto_next", "tick"}) => ~entry.paused

\* C20: while a unit that is no break, has more than one word and a positive
\* duration is current, an auto_next timer is outstanding only with the cursor
\* on the last word, the cursor is within -1..N-1, and while a tick timer is
\* outstanding the cursor is the number of transitions made.
C20_AdvanceOnlyFromTheLastWord ==
    MultiWordUnitPlaying =>
        LET n == WordsOf(idx)
        IN  /\ \A t \in timers :
                   t.cb = "auto_next" => current_word_index = n - 1
            /\ -1 <= current_word_index /\ current_word_index <= n - 1
            /\ \A t \in timers :
                   t.cb = "tick" => current_word_index = next_interval_idx

\* The final hold of a unit of three words after its two transitions.
C20_Witness ==
    /\ MultiWordUnitPlaying
    /\ WordsOf(idx) = 3
    /\ visited = <<0, 1, 2>>
    /\ next_interval_idx = 2
    /\ \E t \in timers : t.cb = "auto_next" /\ timer_id = Some(t.id)

\* A transition timer pending after the first transition.
TransitionPending ==
    /\ MultiWordUnitPlaying
    /\ current_word_index = 1
    /\ \E t \in timers : t.cb = "tick"

\* The show is over: the last unit is current, the status is Done and no
\* timer is outstanding.
Finished ==
    /\ Running
    /\ idx = LastIndex
    /\ status = <<"Done">>
    /\ timers = {}
    /\ timer_id = None /\ word_timer_id = None

\* Each callback goes on from the unit the one before it left, through the
\* units in order, none left out and none gone back to.
VisitsInOrder ==
    Running =>
        /\ idx = entry.idx + Len(advances)
        /\ \A k \in 1..Len(advances) : advances[k].from = entry.idx + k - 1
        /\ IndexInBounds

\* The callbacks a unit needs at most from becoming current to its advance:
\* one for each word, one for a break.
UnitWork(i) == IF IsBreakUnit(i) THEN 1 ELSE Max(1, WordsOf(i))

\* The callbacks the unit current now still needs at most.
CurrentWork ==
    IF status = <<"Done">> THEN 0
    ELSE IF IsBreakUnit(idx) THEN 1
    ELSE Max(1, WordsOf(idx) - Max(current_word_index, 0))

\* The callbacks the rest of the show needs at most: those of the units after
\* the current one, those of the current one, and start_show while it is
\* pending.
RemainingWork ==
    SumSeq([k \in 1..(LastIndex - idx) |-> UnitWork(idx + k)]) + CurrentWork
    + (IF StartPending THEN UnitWork(idx) + 1 ELSE 0)

\* A callback is due: the main loop has a timer to fire.
CallbackDue == \E t \in timers : t.cb = "start_show" \/ DueInTime(t)

\* C21: with no key pressed and every pending timer fired in the end, the
\* index goes through 0, 1, ..., the last unit in order, each once, the show
\* comes to Done at the last unit with no timer outstanding, and from there
\* nothing changes.  The show comes to its end because, until it is over, a
\* callback is due, and every callback brings the remaining work, which is
\* never negative, down.
C21_UninterruptedPlaybackTerminates ==
    /\ []((Running /\ ~Finished) => CallbackDue)
    /\ [](Running => RemainingWork >= 0)
    /\ []((Running /\ RemainingWork = 0) => Finished)
    /\ [][Running => RemainingWork' < RemainingWork]_vars
    /\ []VisitsInOrder
    /\ [][idx' >= idx /\ idx' <= idx + Len(advances')]_vars
    /\ [][~Finished]_vars

\* The end of a show of two units, the last callback being the advance timer
\* of the second unit.
C21_Witness ==
    /\ Finished
    /\ idx = 1
    /\ last = "auto_next"
    /\ Len(paragraphs) = 2

====
